---- MODULE Spec2Model ----
(***************************************************************************)
(* Condor-Enphase: the gateway client's credential handling                *)
(* (src/app/enphase_client.py) and the local-gateway ingest loop           *)
(* (src/app/main.py), as state machines.                                   *)
(*                                                                         *)
(* Two specifications share the module's variables:                        *)
(*   SpecClient  one EnphaseClient (cloud or local mode) and the calls a   *)
(*               caller can make on it, over a token file and a clock;     *)
(*   Spec        ingest_loop() of src/app/main.py driving a local-mode     *)
(*               client and the InfluxDB sink.                             *)
(*                                                                         *)
(* Python's Optional values are sequences of length at most one: <<>> is   *)
(* None (or a missing key), <<x>> is the value x.                          *)
(*                                                                         *)
(* The token endpoint's 2xx answers are token dicts with an access_token,  *)
(* the gateway's 2xx answers are the JSON document null or documents of    *)
(* each endpoint's shape with any of their keys absent, and writing the    *)
(* token file succeeds.                                                    *)
(***************************************************************************)
EXTENDS Integers, Sequences, FiniteSets, TLC

VARIABLES
    \* ---- EnphaseClient (src/app/enphase_client.py) ----
    local_mode,         \* self.local_mode
    local_token,        \* self._local_token (local mode), Optional string
    api_key,            \* self.api_key, Optional string
    token_data,         \* self.token_data, Optional token dict
    token_obtained_at,  \* self.token_obtained_at, Optional number
    store,              \* the file at self.token_path
    now,                \* time.time(), in seconds
    call,               \* the last call made on the client and what it did
    \* ---- ingest_loop (src/app/main.py) ----
    pc,                 \* position of the loop
    cur,                \* the source being processed, 1..5
    pending,            \* mapped records of the current source not yet written
    handed,             \* records of the current source handed to the sink so far
    answer,             \* what the last fetch of the cycle returned
    fetched,            \* this cycle: source -> outcome of its (first) fetch
    complete,           \* this cycle: source -> all its mapped records were handed to the sink
    live,               \* this cycle: the live-stream handshake so far
    lastSkipped,        \* the cycle before skipped live_data after a snapshot that was not enabled
    exitCause,          \* why the loop was left ("none" while it runs)
    influxOpen,         \* the InfluxWriter is open
    sessionOpen,        \* the client's httpx session is open
    \* ---- ingest_loop of the cloud variant (src/main.py) ----
    sys_list,           \* the number of systems get_systems returned, Optional
    attempted           \* this cycle: the systems whose telemetry fetch was begun

clientVars == <<local_mode, local_token, api_key, token_data, token_obtained_at,
                store, now, call>>
cloudVars == <<sys_list, attempted>>
loopVars == <<pc, cur, pending, handed, answer, fetched, complete, live,
              lastSkipped, exitCause, influxOpen, sessionOpen, cloudVars>>
vars == <<clientVars, loopVars>>

----------------------------------------------------------------------------
(* Bounds and program constants *)

\* _is_token_expired(buffer=60)
Buffer == 60
\* seconds the clock advances in one step
TickSec == 30
\* clock steps a behaviour may take
MaxTicks == 2

None == <<>>
Some(x) == <<x>>
\* dict.get(key, default) on an Optional
GetOr(opt, default) == IF opt = None THEN default ELSE opt[1]
\* Python truthiness of an Optional number / Optional string
FalsyNum(opt) == opt = None \/ opt[1] = 0
FalsyStr(opt) == opt = None \/ opt[1] = ""
\* a or b
PyOr(a, b) == IF FalsyStr(a) THEN b ELSE a

StartTime == 4 * TickSec
MaxNow == StartTime + MaxTicks * TickSec

----------------------------------------------------------------------------
(* Values *)

AccessTokens == {"A1", "A2"}
RefreshTokens == {"R1"}
\* expires_in: the buffer is reached two clock steps after the token was
\* obtained, so a token is seen before, at and past it
ExpiresChoices == {Buffer + 2 * TickSec}

\* A token dict as the token endpoint returns it (RFC 6749: access_token is
\* required, refresh_token and expires_in are optional keys).
TokenDicts ==
    [access_token : AccessTokens,
     refresh_token : {None} \cup {Some(r) : r \in RefreshTokens},
     expires_in : {None} \cup {Some(e) : e \in ExpiresChoices}]

\* What the token file may hold when a client is constructed over it.
\*   absent       the path does not exist
\*   unreadable   read_text raises OSError
\*   undecodable  the bytes are not UTF-8 (UnicodeDecodeError)
\*   invalid_json json.loads raises JSONDecodeError
\*   non_object   valid JSON that is no object (a list, null, a number)
\*   object       a JSON object; td / at are payload.get("token_data") and
\*                payload.get("token_obtained_at")
NoPayload == [td |-> None, at |-> None]
FileOf(k) == [kind |-> k, td |-> None, at |-> None]
ObjectFile(td, at) == [kind |-> "object", td |-> td, at |-> at]
BrokenKinds == {"unreadable", "undecodable", "invalid_json", "non_object"}
StoredTimes == {None, Some(0), Some(StartTime - TickSec), Some(StartTime)}
InitialFiles ==
    {FileOf(k) : k \in {"absent"} \cup BrokenKinds}
        \cup {ObjectFile(None, None)}
        \cup {ObjectFile(Some(t), a) : t \in TokenDicts, a \in StoredTimes}

\* Outcomes of one HTTP exchange with the token endpoint.
\*   network      httpx.post raises httpx.RequestError
\*   http_status  raise_for_status raises httpx.HTTPStatusError
\*   bad_json     resp.json() raises json.JSONDecodeError
\*   ok           a token dict
TokenOutcomes ==
    {[kind |-> k, body |-> None] : k \in {"network", "http_status", "bad_json"}}
        \cup {[kind |-> "ok", body |-> Some(t)] : t \in TokenDicts}

\* Outcomes of one API GET / POST through self.session.
ApiOutcomes == {"network", "http_status", "bad_json", "ok"}

\* The exception each failed exchange raises.
ErrorOf(kind) ==
    CASE kind = "network" -> "httpx.RequestError"
      [] kind = "http_status" -> "httpx.HTTPStatusError"
      [] kind = "bad_json" -> "json.JSONDecodeError"
      [] OTHER -> "none"

----------------------------------------------------------------------------
(* EnphaseClient: token persistence *)

\* _save_token: the file becomes {"token_data": ..., "token_obtained_at": ...}
SaveToken(td, at) == ObjectFile(td, at)

\* _load_token: [td, at, err]. err is the exception that leaves the
\* constructor; only JSONDecodeError and OSError are caught.
LoadToken_WrongTimeKey(file) ==
    CASE file.kind = "absent" ->
            [td |-> None, at |-> None, err |-> "none"]
      [] file.kind \in {"invalid_json", "unreadable"} ->
            [td |-> None, at |-> None, err |-> "none"]
      [] file.kind = "undecodable" ->
            [td |-> None, at |-> None, err |-> "UnicodeDecodeError"]
      [] file.kind = "non_object" ->
            [td |-> None, at |-> None, err |-> "AttributeError"]
      [] OTHER ->
            [td |-> file.td, at |-> None, err |-> "none"]

LoadToken(file) ==
    CASE file.kind = "absent" ->
            [td |-> None, at |-> None, err |-> "none"]
      [] file.kind \in {"invalid_json", "unreadable"} ->
            [td |-> None, at |-> None, err |-> "none"]
      [] file.kind = "undecodable" ->
            [td |-> None, at |-> None, err |-> "UnicodeDecodeError"]
      [] file.kind = "non_object" ->
            [td |-> None, at |-> None, err |-> "AttributeError"]
      [] OTHER ->
            [td |-> file.td, at |-> file.at, err |-> "none"]

----------------------------------------------------------------------------
(* EnphaseClient: token lifecycle *)

\* _is_token_expired
IsTokenExpired_DoubleBuffer(td, at, t) ==
    IF td = None \/ FalsyNum(at) THEN TRUE
    ELSE (t - at[1]) >= (GetOr(td[1].expires_in, 0) - 2 * Buffer)

IsTokenExpired(td, at, t) ==
    IF td = None \/ FalsyNum(at) THEN TRUE
    ELSE (t - at[1]) >= (GetOr(td[1].expires_in, 0) - Buffer)

\* The result of a step on the token state: the new memory and file, the
\* exception raised ("none": returned), the token returned, and the requests
\* sent to the token endpoint.
TokResult(td, at, file, err, token, reqs) ==
    [td |-> td, at |-> at, store |-> file, err |-> err, token |-> token,
     tokenReqs |-> reqs]

\* _refresh_token, given the token endpoint's outcome o
RefreshToken_WipeOnFailure(td, at, file, o, t) ==
    IF td = None \/ td[1].refresh_token = None
    THEN TokResult(td, at, file, "ValueError(no refresh token)", None, 0)
    ELSE IF o.kind # "ok"
         THEN TokResult(None, None, SaveToken(None, None), ErrorOf(o.kind), None, 1)
         ELSE TokResult(o.body, Some(t), SaveToken(o.body, Some(t)), "none", None, 1)

RefreshToken_NoGuard(td, at, file, o, t) ==
    IF o.kind # "ok"
    THEN TokResult(td, at, file, ErrorOf(o.kind), None, 1)
    ELSE TokResult(o.body, Some(t), SaveToken(o.body, Some(t)), "none", None, 1)

RefreshToken_ForgetsUnrefreshable(td, at, file, o, t) ==
    IF td = None \/ td[1].refresh_token = None
    THEN TokResult(None, None, file, "ValueError(no refresh token)", None, 0)
    ELSE IF o.kind # "ok"
         THEN TokResult(td, at, file, ErrorOf(o.kind), None, 1)
         ELSE TokResult(o.body, Some(t), SaveToken(o.body, Some(t)), "none", None, 1)

RefreshToken(td, at, file, o, t) ==
    IF td = None \/ td[1].refresh_token = None
    THEN TokResult(td, at, file, "ValueError(no refresh token)", None, 0)
    ELSE IF o.kind # "ok"
         THEN TokResult(td, at, file, ErrorOf(o.kind), None, 1)
         ELSE TokResult(o.body, Some(t), SaveToken(o.body, Some(t)), "none", None, 1)

\* _ensure_token, given the token endpoint's outcome o should it be asked
EnsureToken_NoLocalBranch(local, ltok, td, at, file, o, t) ==
    IF td = None
    THEN TokResult(td, at, file, "ValueError(no token data)", None, 0)
    ELSE IF IsTokenExpired(td, at, t)
    THEN LET r == RefreshToken(td, at, file, o, t)
         IN  IF r.err # "none" THEN r
             ELSE [r EXCEPT !.token = Some(r.td[1].access_token)]
    ELSE TokResult(td, at, file, "none", Some(td[1].access_token), 0)

EnsureToken_ReturnsCachedToken(local, ltok, td, at, file, o, t) ==
    IF local
    THEN IF FalsyStr(ltok)
         THEN TokResult(td, at, file, "ValueError(local token required)", None, 0)
         ELSE TokResult(td, at, file, "none", ltok, 0)
    ELSE IF td = None
    THEN TokResult(td, at, file, "ValueError(no token data)", None, 0)
    ELSE IF IsTokenExpired(td, at, t)
    THEN LET r == RefreshToken(td, at, file, o, t)
         IN  IF r.err # "none" THEN r
             ELSE [r EXCEPT !.token = Some(td[1].access_token)]
    ELSE TokResult(td, at, file, "none", Some(td[1].access_token), 0)

EnsureToken(local, ltok, td, at, file, o, t) ==
    IF local
    THEN IF FalsyStr(ltok)
         THEN TokResult(td, at, file, "ValueError(local token required)", None, 0)
         ELSE TokResult(td, at, file, "none", ltok, 0)
    ELSE IF td = None
    THEN TokResult(td, at, file, "ValueError(no token data)", None, 0)
    ELSE IF IsTokenExpired(td, at, t)
    THEN LET r == RefreshToken(td, at, file, o, t)
         IN  IF r.err # "none" THEN r
             ELSE [r EXCEPT !.token = Some(r.td[1].access_token)]
    ELSE TokResult(td, at, file, "none", Some(td[1].access_token), 0)

----------------------------------------------------------------------------
(* EnphaseClient: construction and the calls made on it (SpecClient) *)

NoCall ==
    [op |-> "none", before |-> NoPayload, beforeStore |-> FileOf("absent"),
     at |-> 0, err |-> "none", authErr |-> "none", asked |-> "no",
     token |-> None, tokenReqs |-> 0, api |-> "no", apiReqs |-> 0,
     bearer |-> None, key |-> None]

\* What one call did: the token state and file it started from, the clock it
\* read, the exception it raised (err; authErr: the one the token step
\* raised), how the token endpoint answered if it was asked, the token the
\* token step returned, the requests sent to the token endpoint and to the
\* API, how the API answered if it was asked, and the Authorization bearer
\* and key parameter of the API request.
CallRecord(op, r, o, err, api, apiReqs, bearer, key) ==
    [op |-> op, before |-> [td |-> token_data, at |-> token_obtained_at],
     beforeStore |-> store, at |-> now, err |-> err, authErr |-> r.err,
     asked |-> IF r.tokenReqs > 0 THEN o.kind ELSE "no",
     token |-> r.token, tokenReqs |-> r.tokenReqs, api |-> api,
     apiReqs |-> apiReqs, bearer |-> bearer, key |-> key]

\* The handshake of one cycle: the snapshot requests and enable commands
\* sent, each snapshot's outcome and the sc_stream flag it carried, the
\* enable call's outcome, and the live_data points handed to the sink.
Snap(res, flag) == [res |-> res, flag |-> flag]
NoLive ==
    [fetches |-> 0, enables |-> 0, first |-> Snap("none", None),
     enable |-> "none", second |-> Snap("none", None), handed |-> 0]

\* What a fetch returned to the loop: nothing (it raised), the JSON document
\* null, or a document of the endpoint's shape (body).
Answer(s, json, body) == [src |-> s, json |-> json, body |-> body]
NoAnswer == Answer(0, "none", None)

\* the ingest loop's variables, idle while a client is exercised alone
LoopIdle ==
    /\ pc = "idle"
    /\ cur = 0
    /\ pending = <<>>
    /\ handed = <<>>
    /\ answer = NoAnswer
    /\ fetched = [s \in 1..5 |-> "none"]
    /\ complete = [s \in 1..5 |-> FALSE]
    /\ live = NoLive
    /\ lastSkipped = FALSE
    /\ exitCause = "none"
    /\ influxOpen = FALSE
    /\ sessionOpen = FALSE
    /\ sys_list = None
    /\ attempted = {}

ApiKeyArgs == {None, Some(""), Some("key")}
EnvApiKeys == {None, Some("envkey")}

\* __init__: api_key falls back to the environment; a gateway_ip selects
\* local mode, where the api_key is the bearer token; cloud mode loads the
\* token file. A load that raises leaves no client (call.err says why).
ClientInit ==
    \E local \in BOOLEAN, arg \in ApiKeyArgs, env \in EnvApiKeys,
       file \in InitialFiles :
        LET key == PyOr(arg, env)
            ld == LoadToken(file)
        IN  /\ local => file = FileOf("absent")
            /\ local_mode = local
            /\ api_key = key
            /\ local_token = IF local THEN key ELSE None
            /\ store = file
            /\ token_data = IF local THEN None ELSE ld.td
            /\ token_obtained_at = IF local THEN None ELSE ld.at
            /\ now = StartTime
            /\ call = [NoCall EXCEPT !.op = "init", !.at = StartTime,
                                     !.beforeStore = file,
                                     !.err = IF local THEN "none" ELSE ld.err]
            /\ LoopIdle

\* a constructed client exists
Constructed == call.op # "init" \/ call.err = "none"

\* The process restarts: a new cloud client is constructed over the file the
\* last one left (__init__ and _load_token again).
Restart ==
    /\ ~local_mode
    /\ call.op # "init"
    /\ LET ld == LoadToken(store)
       IN  /\ token_data' = ld.td
           /\ token_obtained_at' = ld.at
           /\ call' = [NoCall EXCEPT !.op = "init", !.at = now,
                                     !.before = [td |-> token_data,
                                                 at |-> token_obtained_at],
                                     !.beforeStore = store, !.err = ld.err]
    /\ UNCHANGED <<local_mode, local_token, api_key, store, now, loopVars>>

\* the clock advances
Tick ==
    /\ now + TickSec <= MaxNow
    /\ now' = now + TickSec
    /\ UNCHANGED <<local_mode, local_token, api_key, token_data,
                   token_obtained_at, store, call, loopVars>>

\* fetch_token(auth_code), given the token endpoint's outcome o
FetchTokenResult_SavesOldTime(td, at, file, o, t) ==
    IF o.kind # "ok"
    THEN TokResult(td, at, file, ErrorOf(o.kind), None, 1)
    ELSE TokResult(o.body, Some(t), SaveToken(o.body, at), "none", None, 1)

FetchTokenResult(td, at, file, o, t) ==
    IF o.kind # "ok"
    THEN TokResult(td, at, file, ErrorOf(o.kind), None, 1)
    ELSE TokResult(o.body, Some(t), SaveToken(o.body, Some(t)), "none", None, 1)

FetchToken(o) ==
    /\ Constructed
    /\ ~local_mode
    /\ LET r == FetchTokenResult(token_data, token_obtained_at, store, o, now)
       IN  /\ token_data' = r.td
           /\ token_obtained_at' = r.at
           /\ store' = r.store
           /\ call' = CallRecord("fetch_token", r, o, r.err, "no", 0, None, None)
    /\ UNCHANGED <<local_mode, local_token, api_key, now, loopVars>>

\* _ensure_token(), called on its own
EnsureTokenCall(o) ==
    /\ Constructed
    /\ LET r == EnsureToken(local_mode, local_token, token_data,
                            token_obtained_at, store, o, now)
       IN  /\ token_data' = r.td
           /\ token_obtained_at' = r.at
           /\ store' = r.store
           /\ call' = CallRecord("ensure", r, o, r.err, "no", 0, None, None)
    /\ UNCHANGED <<local_mode, local_token, api_key, now, loopVars>>

\* _get(endpoint): the token first, then one GET with the bearer header and,
\* in cloud mode with an api_key, the key parameter; a is the API's outcome.
GetResult_IgnoresAuthError(r, local, key, a) ==
    [err |-> ErrorOf(a), apiReqs |-> 1, bearer |-> r.token,
     key |-> IF ~local /\ ~FalsyStr(key) THEN key ELSE None]

GetResult_KeyInEveryMode(r, local, key, a) ==
    IF r.err # "none"
    THEN [err |-> r.err, apiReqs |-> 0, bearer |-> None, key |-> None]
    ELSE [err |-> ErrorOf(a), apiReqs |-> 1, bearer |-> r.token,
          key |-> IF ~FalsyStr(key) THEN key ELSE None]

GetResult_RetriesOnce(r, local, key, a) ==
    IF r.err # "none"
    THEN [err |-> r.err, apiReqs |-> 0, bearer |-> None, key |-> None]
    ELSE [err |-> ErrorOf(a), apiReqs |-> IF a = "ok" THEN 1 ELSE 2,
          bearer |-> r.token,
          key |-> IF ~local /\ ~FalsyStr(key) THEN key ELSE None]

GetResult(r, local, key, a) ==
    IF r.err # "none"
    THEN [err |-> r.err, apiReqs |-> 0, bearer |-> None, key |-> None]
    ELSE [err |-> ErrorOf(a), apiReqs |-> 1, bearer |-> r.token,
          key |-> IF ~local /\ ~FalsyStr(key) THEN key ELSE None]

Get(o, a) ==
    /\ Constructed
    /\ LET r == EnsureToken(local_mode, local_token, token_data,
                            token_obtained_at, store, o, now)
           g == GetResult(r, local_mode, api_key, a)
       IN  /\ token_data' = r.td
           /\ token_obtained_at' = r.at
           /\ store' = r.store
           /\ call' = CallRecord("get", r, o, g.err,
                                 IF r.err = "none" THEN a ELSE "no",
                                 g.apiReqs, g.bearer, g.key)
    /\ UNCHANGED <<local_mode, local_token, api_key, now, loopVars>>

\* enable_live_stream(): RuntimeError outside local mode, before the token
\* is looked at; else the token, then one POST with the bearer header and
\* no parameters. a is the gateway's outcome.
PostResult(r, a) ==
    IF r.err # "none"
    THEN [err |-> r.err, apiReqs |-> 0, bearer |-> None, key |-> None]
    ELSE [err |-> ErrorOf(a), apiReqs |-> 1, bearer |-> r.token, key |-> None]

EnableLiveStream(a) ==
    /\ Constructed
    /\ LET o == [kind |-> "network", body |-> None]
           r == IF local_mode
                THEN EnsureToken(local_mode, local_token, token_data,
                                 token_obtained_at, store, o, now)
                ELSE TokResult(token_data, token_obtained_at, store, "none",
                               None, 0)
           g == IF local_mode THEN PostResult(r, a)
                ELSE [err |-> "RuntimeError", apiReqs |-> 0, bearer |-> None,
                      key |-> None]
       IN  call' = CallRecord("enable", r, o, g.err,
                              IF g.apiReqs > 0 THEN a ELSE "no",
                              g.apiReqs, g.bearer, g.key)
    /\ UNCHANGED <<local_mode, local_token, api_key, token_data,
                   token_obtained_at, store, now, loopVars>>

ClientNext ==
    \/ Tick
    \/ Restart
    \/ \E o \in TokenOutcomes : FetchToken(o)
    \/ \E o \in TokenOutcomes : EnsureTokenCall(o)
    \/ \E o \in TokenOutcomes, a \in ApiOutcomes : Get(o, a)
    \/ \E a \in ApiOutcomes : EnableLiveStream(a)

SpecClient == ClientInit /\ [][ClientNext]_vars

----------------------------------------------------------------------------
(* ingest_loop of src/app/main.py: documents and mappers *)

\* entries a list document (meters, inverters) may hold
MaxList == 2

Sources == 1..5
\* the epoch values documents carry
DocTimes == {StartTime - TickSec}
OptTimes == {None} \cup {Some(t) : t \in DocTimes}
\* a value object's mapped keys: all absent or null ("none"), or some set
FieldSets == {"none", "some"}

\* _epoch_to_dt: the epoch in seconds, the clock when it is None
EpochToDt(epoch, t) == IF epoch = None THEN t ELSE epoch[1]

\* A point handed to the sink: its measurement, its time and whether any of
\* its fields is set.
Record(m, ts, fields) == [m |-> m, ts |-> ts, fields |-> fields]

\* 1: /ivp/pdm/energy: category -> sub-source -> value object. A sub-source
\* is absent, a scalar, an object with none of the mapped keys ("empty") or
\* an object with some ("vals"); a category is absent, a scalar or an object
\* of sub-sources.
Cats == <<"production", "consumption">>
Subs == <<"eim", "pcu">>
SubVals == {"absent", "scalar", "empty", "vals"}
CatObjects == [1..Len(Subs) -> SubVals]
MetaVals == {None, Some(None)} \cup {Some(Some(t)) : t \in DocTimes}
PdmDocs == [meta : MetaVals, cats : [1..Len(Cats) -> {None} \cup {Some(c) : c \in CatObjects}]]

\* the records of one category, in the order of its sub-sources
RECURSIVE PdmSubRecords(_, _, _, _)
PdmSubRecords(cat, obj, i, base_ts) ==
    IF i > Len(Subs) THEN <<>>
    ELSE (IF obj[i] \in {"empty", "vals"}
          THEN <<Record(cat \o "_" \o Subs[i], base_ts,
                        IF obj[i] = "vals" THEN "some" ELSE "none")>>
          ELSE <<>>)
         \o PdmSubRecords(cat, obj, i + 1, base_ts)

RECURSIVE PdmCatRecords(_, _, _)
PdmCatRecords(cats, i, base_ts) ==
    IF i > Len(Cats) THEN <<>>
    ELSE (IF cats[i] = None THEN <<>>
          ELSE PdmSubRecords(Cats[i], cats[i][1], 1, base_ts))
         \o PdmCatRecords(cats, i + 1, base_ts)

\* lines 139-156: meta = pdm.get("meta", {}); base_ts once; one point per
\* (category, sub-source) whose value is an object. meta itself is iterated
\* too and yields nothing: its values are scalars.
MapPdm_MetaRecord(doc, t) ==
    LET meta == GetOr(doc.meta, None)
        base_ts == EpochToDt(meta, t)
    IN  (IF doc.meta = None THEN <<>>
         ELSE <<Record("meta_last_report_at", base_ts, "some")>>)
        \o PdmCatRecords(doc.cats, 1, base_ts)

MapPdm(doc, t) ==
    LET meta == GetOr(doc.meta, None)
        base_ts == EpochToDt(meta, t)
    IN  PdmCatRecords(doc.cats, 1, base_ts)

\* pdm = {} after a caught fetch error
EmptyPdm == [meta |-> None, cats |-> [i \in 1..Len(Cats) |-> None]]

\* 2: /api/v1/production: one flat object
ProdDocs == [timestamp : OptTimes, fields : FieldSets]
MapProduction(doc, t) ==
    <<Record("production_total", EpochToDt(doc.timestamp, t), doc.fields)>>

\* 3: /ivp/meters/readings: a list of objects. A timestamp may be the
\* epoch 0, and read_at differs from it; eid is a number, measurementType a
\* string.
MeterTimes == OptTimes \cup {Some(0)}
ReadAtTimes == {None, Some(StartTime - 2 * TickSec)}
MeterEntries ==
    [timestamp : MeterTimes, read_at : ReadAtTimes, fields : FieldSets,
     eid : {Some(1)}, measurementType : {Some("production")}]
\* str(x): "None" for None, the decimal digits of a number
PyStr(opt) == IF opt = None THEN "None" ELSE ToString(opt[1])
\* mtr.get("timestamp") or mtr.get("read_at")
MeterTime(mtr) == IF FalsyNum(mtr.timestamp) THEN mtr.read_at ELSE mtr.timestamp
\* the meter_power point with its eid and type tags
MapMeter(mtr, t) ==
    [m |-> "meter_power", ts |-> EpochToDt(MeterTime(mtr), t),
     fields |-> mtr.fields,
     tags |-> [eid |-> PyStr(mtr.eid), type |-> mtr.measurementType]]

\* 4: /api/v1/production/inverters: a list of objects
InverterEntries == [lastReportDate : OptTimes, fields : FieldSets]
MapInverter(inv, t) ==
    Record("inverter_power", EpochToDt(inv.lastReportDate, t), inv.fields)

ListsOf(S) == UNION {[1..n -> S] : n \in 0..MaxList}

\* 5: /ivp/livedata/status: connection.sc_stream (None: the key or the
\* connection object is absent) and the meters object
LiveDocs == [sc_stream : {None, Some("enabled"), Some("disabled")},
             last_update : OptTimes, fields : FieldSets]
\* conn.get("sc_stream", "disabled")
StreamState_DefaultEnabled(doc) == GetOr(doc.sc_stream, "enabled")

StreamState_WrongKey(doc) == "disabled"

StreamState_KeptAfterSkip(doc) ==
    IF lastSkipped THEN "enabled" ELSE GetOr(doc.sc_stream, "disabled")

StreamState(doc) == GetOr(doc.sc_stream, "disabled")
MapLive(doc, t) == <<Record("live_data", EpochToDt(doc.last_update, t), doc.fields)>>

\* the documents a source's endpoint may answer with, and its mapper
DocsOf(s) ==
    CASE s = 1 -> PdmDocs
      [] s = 2 -> ProdDocs
      [] s = 3 -> ListsOf(MeterEntries)
      [] s = 4 -> ListsOf(InverterEntries)
      [] OTHER -> LiveDocs

\* the documents that matter for outcome a: only a 2xx answer with a JSON
\* body that is not null delivers one
DocsFor(s, a) ==
    IF a = "ok" THEN DocsOf(s) ELSE {CHOOSE d \in DocsOf(s) : TRUE}

MapSource(s, doc, t) ==
    CASE s = 1 -> MapPdm(doc, t)
      [] s = 2 -> MapProduction(doc, t)
      [] s = 3 -> [i \in 1..Len(doc) |-> MapMeter(doc[i], t)]
      [] s = 4 -> [i \in 1..Len(doc) |-> MapInverter(doc[i], t)]
      [] OTHER -> MapLive(doc, t)

----------------------------------------------------------------------------
(* ingest_loop: exception handling *)

\* What the gateway does with one request of the loop: an outcome of
\* ApiOutcomes, or a 2xx answer whose body is the JSON document null (_get
\* returns None).
GatewayOutcomes == ApiOutcomes \cup {"null"}

\* The exception the code after a fetch raises on None: pdm.get, prod.get
\* and live.get raise AttributeError, the for loops over meters and
\* inverters raise TypeError.
NullError(s) == IF s \in {3, 4} THEN "TypeError" ELSE "AttributeError"

\* except (requests.RequestException, ValueError): what the per-source
\* handlers catch. The client raises httpx exceptions, which are neither;
\* json.JSONDecodeError and the missing-token error are ValueErrors.
Caught_OnlyRequestsErrors(err) == FALSE

Caught(err) ==
    err \in {"json.JSONDecodeError", "ValueError(local token required)",
             "ValueError(no token data)", "ValueError(no refresh token)"}

\* One call of the local client's _get / enable_live_stream inside the loop:
\* _ensure_token, then one request with outcome a. [err, sent]
LocalRequest(a) ==
    LET r == EnsureToken(local_mode, local_token, token_data,
                         token_obtained_at, store, [kind |-> "network", body |-> None], now)
    IN  IF r.err # "none" THEN [err |-> r.err, sent |-> 0]
        ELSE [err |-> ErrorOf(a), sent |-> 1]

\* the finally block: influx.close(), enphase.close()
Leave_SinkOnly(cause) ==
    /\ pc' = "closed"
    /\ exitCause' = cause
    /\ influxOpen' = FALSE
    /\ sessionOpen' = sessionOpen
    /\ pending' = <<>>

Leave(cause) ==
    /\ pc' = "closed"
    /\ exitCause' = cause
    /\ influxOpen' = FALSE
    /\ sessionOpen' = FALSE
    /\ pending' = <<>>

\* the source after s, or the sleep after the fifth
Advance(s) ==
    IF s < 5 THEN pc' = "fetch" /\ cur' = s + 1
    ELSE pc' = "sleep" /\ cur' = s

\* the mapped records recs of source s go to the sink one by one
StartWrites_FetchAhead(s, recs) ==
    /\ pending' = recs
    /\ complete' = complete
    /\ Advance(s)

StartWrites(s, recs) ==
    IF recs = <<>>
    THEN /\ pending' = <<>>
         /\ complete' = [complete EXCEPT ![s] = TRUE]
         /\ Advance(s)
    ELSE /\ pending' = recs
         /\ complete' = complete
         /\ pc' = "write"
         /\ cur' = s

----------------------------------------------------------------------------
(* ingest_loop: the steps *)

\* lines 117-130: both resources acquired, the loop about to start. The
\* bearer token is SETTINGS.enphase_local_token, else ENPHASE_API_KEY.
LoopInit ==
    \E arg \in ApiKeyArgs, env \in EnvApiKeys :
        /\ local_mode = TRUE
        /\ api_key = PyOr(arg, env)
        /\ local_token = PyOr(arg, env)
        /\ token_data = None
        /\ token_obtained_at = None
        /\ store = FileOf("absent")
        /\ now = StartTime
        /\ call = NoCall
        /\ pc = "fetch"
        /\ cur = 1
        /\ pending = <<>>
        /\ handed = <<>>
        /\ answer = NoAnswer
        /\ fetched = [s \in Sources |-> "none"]
        /\ complete = [s \in Sources |-> FALSE]
        /\ live = NoLive
        /\ lastSkipped = FALSE
        /\ exitCause = "none"
        /\ influxOpen = TRUE
        /\ sessionOpen = TRUE
        /\ sys_list = None
        /\ attempted = {}

\* Sources 1-4: the fetch and the mapping of source s. a is the gateway's
\* outcome, doc the document it answers with. After a caught error source 1
\* maps pdm = {} (no records); sources 2-4 skip their mapping. Nothing
\* catches what the mapping raises on a null document.
Fetch(s, a, doc) ==
    /\ pc = "fetch"
    /\ cur = s
    /\ s \in 1..4
    /\ handed' = <<>>
    /\ LET q == LocalRequest(a)
       IN  IF q.err = "none" /\ a = "null"
           THEN /\ fetched' = [fetched EXCEPT ![s] = "ok"]
                /\ answer' = Answer(s, "null", None)
                /\ complete' = complete
                /\ cur' = cur
                /\ Leave(NullError(s))
           ELSE IF q.err = "none"
           THEN /\ fetched' = [fetched EXCEPT ![s] = "ok"]
                /\ answer' = Answer(s, "doc", Some(doc))
                /\ StartWrites(s, MapSource(s, doc, now))
                /\ UNCHANGED <<exitCause, influxOpen, sessionOpen>>
           ELSE IF Caught(q.err)
           THEN /\ fetched' = [fetched EXCEPT ![s] = q.err]
                /\ answer' = Answer(s, "none", None)
                /\ IF s = 1
                   THEN StartWrites(1, MapPdm(EmptyPdm, now))
                   ELSE /\ pending' = <<>>
                        /\ complete' = complete
                        /\ Advance(s)
                /\ UNCHANGED <<exitCause, influxOpen, sessionOpen>>
           ELSE /\ fetched' = [fetched EXCEPT ![s] = q.err]
                /\ answer' = Answer(s, "none", None)
                /\ complete' = complete
                /\ cur' = cur
                /\ Leave(q.err)
    /\ UNCHANGED <<live, lastSkipped, clientVars, cloudVars>>

\* _write: the head of pending goes to the sink; w is the sink's outcome.
\* No handler catches the sink's exception.
WriteRecord(w) ==
    /\ pc = "write"
    /\ pending # <<>>
    /\ handed' = Append(handed, Head(pending))
    /\ live' = IF cur = 5 THEN [live EXCEPT !.handed = @ + 1] ELSE live
    /\ IF w = "ok"
       THEN /\ IF Len(pending) = 1
               THEN /\ pending' = <<>>
                    /\ complete' = [complete EXCEPT ![cur] = TRUE]
                    /\ Advance(cur)
               ELSE /\ pending' = Tail(pending)
                    /\ UNCHANGED <<pc, cur, complete>>
            /\ UNCHANGED <<exitCause, influxOpen, sessionOpen>>
       ELSE /\ Leave("influxdb.ApiException")
            /\ UNCHANGED <<cur, complete>>
    /\ UNCHANGED <<answer, fetched, lastSkipped, clientVars, cloudVars>>

\* lines 217-224 and 233-254: the first live snapshot
LiveFetch(a, doc) ==
    /\ pc = "fetch"
    /\ cur = 5
    /\ handed' = <<>>
    /\ LET q == LocalRequest(a)
       IN  IF q.err = "none" /\ a = "null"
           THEN /\ fetched' = [fetched EXCEPT ![5] = "ok"]
                /\ answer' = Answer(5, "null", None)
                /\ live' = [live EXCEPT !.fetches = @ + q.sent,
                                        !.first = Snap("null", None)]
                /\ Leave(NullError(5))
                /\ UNCHANGED <<cur, complete>>
           ELSE IF q.err = "none"
           THEN /\ fetched' = [fetched EXCEPT ![5] = "ok"]
                /\ answer' = Answer(5, "doc", Some(doc))
                /\ live' = [live EXCEPT !.fetches = @ + q.sent,
                                        !.first = Snap("ok", doc.sc_stream)]
                /\ IF StreamState(doc) = "enabled"
                   THEN StartWrites(5, MapLive(doc, now))
                   ELSE /\ pc' = "enable"
                        /\ UNCHANGED <<cur, pending, complete>>
                /\ UNCHANGED <<exitCause, influxOpen, sessionOpen>>
           ELSE IF Caught(q.err)
           THEN /\ fetched' = [fetched EXCEPT ![5] = q.err]
                /\ answer' = Answer(5, "none", None)
                /\ live' = [live EXCEPT !.fetches = @ + q.sent, !.first = Snap(q.err, None)]
                /\ pc' = "sleep"
                /\ UNCHANGED <<cur, pending, complete, exitCause, influxOpen,
                               sessionOpen>>
           ELSE /\ fetched' = [fetched EXCEPT ![5] = q.err]
                /\ answer' = Answer(5, "none", None)
                /\ live' = [live EXCEPT !.fetches = @ + q.sent, !.first = Snap(q.err, None)]
                /\ Leave(q.err)
                /\ UNCHANGED <<cur, complete>>
    /\ UNCHANGED <<lastSkipped, clientVars, cloudVars>>

\* lines 226-227: enable_live_stream(), one POST to /ivp/livedata/stream
Enable(a) ==
    /\ pc = "enable"
    /\ LET q == LocalRequest(a)
       IN  /\ live' = [live EXCEPT !.enables = @ + q.sent,
                                   !.enable = IF q.err = "none" THEN "ok" ELSE q.err]
           /\ IF q.err = "none"
              THEN /\ pc' = "refetch"
                   /\ UNCHANGED <<pending, exitCause, influxOpen, sessionOpen>>
              ELSE IF Caught(q.err)
              THEN /\ pc' = "sleep"
                   /\ UNCHANGED <<pending, exitCause, influxOpen, sessionOpen>>
              ELSE Leave(q.err)
    /\ UNCHANGED <<cur, handed, answer, fetched, complete, lastSkipped, clientVars, cloudVars>>

\* lines 228-254: the snapshot fetched again after the enable call
Refetch(a, doc) ==
    /\ pc = "refetch"
    /\ LET q == LocalRequest(a)
       IN  IF q.err = "none" /\ a = "null"
           THEN /\ answer' = Answer(5, "null", None)
                /\ live' = [live EXCEPT !.fetches = @ + q.sent,
                                        !.second = Snap("null", None)]
                /\ Leave(NullError(5))
                /\ UNCHANGED <<cur, complete>>
           ELSE IF q.err = "none"
           THEN /\ answer' = Answer(5, "doc", Some(doc))
                /\ live' = [live EXCEPT !.fetches = @ + q.sent,
                                        !.second = Snap("ok", doc.sc_stream)]
                /\ IF StreamState(doc) = "enabled"
                   THEN StartWrites(5, MapLive(doc, now))
                   ELSE /\ pc' = "sleep"
                        /\ UNCHANGED <<cur, pending, complete>>
                /\ UNCHANGED <<exitCause, influxOpen, sessionOpen>>
           ELSE IF Caught(q.err)
           THEN /\ answer' = Answer(5, "none", None)
                /\ live' = [live EXCEPT !.fetches = @ + q.sent, !.second = Snap(q.err, None)]
                /\ pc' = "sleep"
                /\ UNCHANGED <<cur, pending, complete, exitCause, influxOpen,
                               sessionOpen>>
           ELSE /\ answer' = Answer(5, "none", None)
                /\ live' = [live EXCEPT !.fetches = @ + q.sent, !.second = Snap(q.err, None)]
                /\ Leave(q.err)
                /\ UNCHANGED <<cur, complete>>
    /\ UNCHANGED <<handed, fetched, lastSkipped, clientVars, cloudVars>>

\* line 256: time.sleep, then the next cycle starts afresh
Sleep ==
    /\ pc = "sleep"
    /\ pc' = "fetch"
    /\ cur' = 1
    /\ pending' = <<>>
    /\ handed' = <<>>
    /\ answer' = NoAnswer
    /\ fetched' = [s \in Sources |-> "none"]
    /\ complete' = [s \in Sources |-> FALSE]
    /\ live' = NoLive
    /\ lastSkipped' = (/\ live.first.res = "ok"
                       /\ live.first.flag # Some("enabled")
                       /\ live.handed = 0)
    /\ UNCHANGED <<exitCause, influxOpen, sessionOpen, clientVars, cloudVars>>

\* The termination signal: KeyboardInterrupt raised in the loop, wherever it
\* is; the finally block runs.
Interrupt ==
    /\ pc \notin {"closed", "idle"}
    /\ Leave("signal")
    /\ UNCHANGED <<cur, handed, answer, fetched, complete, live, lastSkipped,
                   clientVars, cloudVars>>

Next ==
    \/ \E s \in 1..4, a \in GatewayOutcomes : \E doc \in DocsFor(s, a) : Fetch(s, a, doc)
    \/ \E w \in {"ok", "error"} : WriteRecord(w)
    \/ \E a \in GatewayOutcomes : \E doc \in DocsFor(5, a) : LiveFetch(a, doc)
    \/ \E a \in ApiOutcomes : Enable(a)
    \/ \E a \in GatewayOutcomes : \E doc \in DocsFor(5, a) : Refetch(a, doc)
    \/ Sleep
    \/ Interrupt

Spec == LoopInit /\ [][Next]_vars

----------------------------------------------------------------------------
(* ingest_loop of src/main.py: the cloud client (src/enphase_client.py)     *)
(* polling each system's telemetry and summary (SpecCloud)                  *)

\* systems get_systems may list
MaxSystems == 2

\* _load_token of src/enphase_client.py: except Exception: pass
RootLoadToken(file) ==
    IF file.kind = "object"
    THEN [td |-> file.td, at |-> file.at, err |-> "none"]
    ELSE [td |-> None, at |-> None, err |-> "none"]

\* _get of src/enphase_client.py: the key parameter whenever an api_key is set
RootGetResult(r, key, a) ==
    IF r.err # "none"
    THEN [err |-> r.err, apiReqs |-> 0, bearer |-> None, key |-> None]
    ELSE [err |-> ErrorOf(a), apiReqs |-> 1, bearer |-> r.token,
          key |-> IF ~FalsyStr(key) THEN key ELSE None]

\* latest_telemetry: devices.meters and devices.encharges, lists of
\* objects; a meter may lack its power, a battery module its last_report_at
CloudMeterEntries ==
    [name : {Some("storage")}, power : {None, Some(5)},
     last_report_at : {Some(t) : t \in DocTimes}]
EnchargeEntries == [power : {Some(5)}, last_report_at : OptTimes]
TelemetryDocs ==
    [meters : ListsOf(CloudMeterEntries), encharges : ListsOf(EnchargeEntries)]
\* summary: last_interval_end_at and the mapped values
SummaryDocs == [last_interval_end_at : OptTimes, fields : FieldSets]

\* if power is None or ts is None: continue
Writable(e) == e.power # None /\ e.last_report_at # None
\* meas = meter.get("name"), "storage" renamed
CloudMeasurement(name) ==
    IF name = Some("storage") THEN "storage_meter" ELSE GetOr(name, "None")

\* lines 59-95: one point per meter and per battery module that has both a
\* power and a last_report_at
MapTelemetry(doc) ==
    LET ms == SelectSeq(doc.meters, Writable)
        es == SelectSeq(doc.encharges, Writable)
    IN  [i \in 1..Len(ms) |->
            Record(CloudMeasurement(ms[i].name), ms[i].last_report_at[1], "some")]
        \o [i \in 1..Len(es) |->
            Record("battery_dc", es[i].last_report_at[1], "some")]

\* lines 111-124: the daily_summary point of a summary that has its time
MapSummary(doc) ==
    <<Record("daily_summary", doc.last_interval_end_at[1], doc.fields)>>

\* The token files the loop starts over: none, or one that fetch_token
\* saved (a token and the time it was obtained) before the loop was started.
CloudFiles ==
    {FileOf("absent")}
        \cup {SaveToken(Some(t), Some(a)) :
                t \in {d \in TokenDicts : d.access_token = "A1"},
                a \in {StartTime - TickSec, StartTime}}

\* lines 34-46: both resources acquired; the client loaded its token file.
\* api_key is ENPHASE_API_KEY; the constructor falls back to the same
\* variable.
CloudInit ==
    \E env \in EnvApiKeys, file \in CloudFiles :
        LET ld == RootLoadToken(file)
        IN  /\ local_mode = FALSE
            /\ api_key = PyOr(env, env)
            /\ local_token = None
            /\ store = file
            /\ token_data = ld.td
            /\ token_obtained_at = ld.at
            /\ now = StartTime
            /\ call = NoCall
            /\ pc = "systems"
            /\ cur = 0
            /\ pending = <<>>
            /\ handed = <<>>
            /\ answer = NoAnswer
            /\ fetched = [s \in Sources |-> "none"]
            /\ complete = [s \in Sources |-> FALSE]
            /\ live = NoLive
            /\ lastSkipped = FALSE
            /\ exitCause = "none"
            /\ influxOpen = TRUE
            /\ sessionOpen = TRUE
            /\ sys_list = None
            /\ attempted = {}

\* One _get of the cloud client inside the loop: the token step (with the
\* token endpoint's outcome o should a refresh be due), then one GET with
\* outcome a. q is what it did; the client's token state follows it (the
\* record of the last call and of the records handed over are not kept
\* here).
CloudRequest(o, a) ==
    LET r == EnsureToken(FALSE, None, token_data, token_obtained_at, store, o, now)
    IN  [r |-> r, g |-> RootGetResult(r, api_key, a)]

CloudCall(q, o, a) ==
    /\ token_data' = q.r.td
    /\ token_obtained_at' = q.r.at
    /\ store' = q.r.store
    /\ UNCHANGED <<local_mode, local_token, api_key, now, call>>

\* What ends a step of the cloud loop, which has no handler of its own: the
\* request's exception, or the AttributeError of .get on a null document.
CloudFailure(q, a) ==
    IF q.g.err # "none" THEN q.g.err
    ELSE IF a = "null" THEN "AttributeError"
    ELSE "none"

\* the token endpoint is asked only when a refresh is due
RefreshDue ==
    /\ token_data # None
    /\ token_data[1].refresh_token # None
    /\ IsTokenExpired(token_data, token_obtained_at, now)
TokenOutcomesDue ==
    IF RefreshDue THEN TokenOutcomes ELSE {[kind |-> "network", body |-> None]}

\* line 50: sys_list = enphase.get_systems().get("systems", []), once
GetSystems(o, a, n) ==
    /\ pc = "systems"
    /\ LET q == CloudRequest(o, a)
       IN  /\ CloudCall(q, o, a)
           /\ IF CloudFailure(q, a) # "none"
              THEN /\ Leave(CloudFailure(q, a))
                   /\ UNCHANGED <<cur, sys_list, attempted>>
              ELSE /\ sys_list' = Some(n)
                   /\ attempted' = {}
                   /\ cur' = 1
                   /\ pc' = IF n = 0 THEN "sleep" ELSE "telemetry"
                   /\ UNCHANGED <<pending, exitCause, influxOpen, sessionOpen>>
    /\ UNCHANGED <<handed, answer, fetched, complete, live, lastSkipped>>

\* the system after the current one, or the sleep after the last
CloudAdvance ==
    IF cur < sys_list[1] THEN pc' = "telemetry" /\ cur' = cur + 1
    ELSE pc' = "sleep" /\ cur' = cur

\* lines 55-95: the telemetry of system cur is fetched and mapped
Telemetry(o, a, doc) ==
    /\ pc = "telemetry"
    /\ attempted' = attempted \cup {cur}
    /\ LET q == CloudRequest(o, a)
       IN  /\ CloudCall(q, o, a)
           /\ IF CloudFailure(q, a) # "none"
              THEN Leave(CloudFailure(q, a))
              ELSE /\ pending' = MapTelemetry(doc)
                   /\ pc' = IF MapTelemetry(doc) = <<>> THEN "summary" ELSE "write"
                   /\ UNCHANGED <<exitCause, influxOpen, sessionOpen>>
    /\ UNCHANGED <<cur, handed, sys_list, answer, fetched, complete, live,
                   lastSkipped>>

\* lines 98-124: the summary of system cur is fetched and mapped;
\* datetime.fromtimestamp(None) raises TypeError
Summary(o, a, doc) ==
    /\ pc = "summary"
    /\ LET q == CloudRequest(o, a)
       IN  /\ CloudCall(q, o, a)
           /\ IF CloudFailure(q, a) # "none"
              THEN Leave(CloudFailure(q, a))
              ELSE IF doc.last_interval_end_at = None
              THEN Leave("TypeError")
              ELSE /\ pending' = MapSummary(doc)
                   /\ pc' = "write_summary"
                   /\ UNCHANGED <<exitCause, influxOpen, sessionOpen>>
    /\ UNCHANGED <<cur, handed, sys_list, attempted, answer, fetched, complete,
                   live, lastSkipped>>

\* influx.write_api.write of the head of pending; w is the sink's outcome
CloudWrite(w) ==
    /\ pc \in {"write", "write_summary"}
    /\ pending # <<>>
    /\ IF w # "ok"
       THEN Leave("influxdb.ApiException") /\ cur' = cur
       ELSE /\ pending' = Tail(pending)
            /\ IF Len(pending) > 1 THEN UNCHANGED <<pc, cur>>
               ELSE IF pc = "write" THEN pc' = "summary" /\ cur' = cur
               ELSE CloudAdvance
            /\ UNCHANGED <<exitCause, influxOpen, sessionOpen>>
    /\ UNCHANGED <<handed, sys_list, attempted, answer, fetched, complete,
                   live, lastSkipped, clientVars>>

\* line 129: time.sleep(POLL_INTERVAL); the list of systems is kept
CloudSleep ==
    /\ pc = "sleep"
    /\ now' = IF now + TickSec <= MaxNow THEN now + TickSec ELSE now
    /\ pc' = IF sys_list = Some(0) THEN "sleep" ELSE "telemetry"
    /\ cur' = 1
    /\ attempted' = {}
    /\ UNCHANGED <<local_mode, local_token, api_key, token_data,
                   token_obtained_at, store, call, pending, handed, sys_list, answer,
                   fetched, complete, live, lastSkipped, exitCause, influxOpen,
                   sessionOpen>>

\* the termination signal: KeyboardInterrupt, then the finally block
CloudInterrupt ==
    /\ pc \notin {"closed", "idle"}
    /\ Leave("signal")
    /\ UNCHANGED <<cur, handed, sys_list, attempted, answer, fetched, complete,
                   live, lastSkipped, clientVars>>

NextCloud ==
    \/ \E o \in TokenOutcomesDue, a \in GatewayOutcomes, n \in 0..MaxSystems :
            GetSystems(o, a, n)
    \/ \E o \in TokenOutcomesDue, a \in GatewayOutcomes :
            \E doc \in IF a = "ok" THEN TelemetryDocs
                       ELSE {CHOOSE d \in TelemetryDocs : TRUE} :
                Telemetry(o, a, doc)
    \/ \E o \in TokenOutcomesDue, a \in GatewayOutcomes, doc \in SummaryDocs :
            Summary(o, a, doc)
    \/ \E w \in {"ok", "error"} : CloudWrite(w)
    \/ CloudSleep
    \/ CloudInterrupt

SpecCloud == CloudInit /\ [][NextCloud]_vars

----------------------------------------------------------------------------
(* Properties of the ingest loop (checked under Spec) *)

AuthCalls == {"ensure", "get"}
\* the fetch failures the gateway client surfaces as transport errors
TransportErrors ==
    {"httpx.RequestError", "httpx.HTTPStatusError", "json.JSONDecodeError"}
\* the cycle is over: it reached its sleep, or the loop was left by an error
\* of the cycle itself (not the signal, not the sink)
CycleOver ==
    \/ pc = "sleep"
    \/ pc = "closed" /\ exitCause \notin {"signal", "influxdb.ApiException"}

\* C1: a transport failure (non-2xx status, network failure, malformed JSON)
\* fetching one source never prevents the other four sources of the cycle
\* from being attempted and, when their fetch succeeds, from having their
\* records handed to the sink.
C1_TransportFailureIsolated ==
    \A s \in Sources :
        (CycleOver /\ fetched[s] \in TransportErrors) =>
            \A t \in Sources \ {s} :
                /\ fetched[t] # "none"
                /\ (t < 5 /\ fetched[t] = "ok") => complete[t]

\* C2: no gateway error and no sink write error makes the loop exit: the
\* loop is left only on the termination signal.
C2_LoopEndsOnlyOnSignal == pc = "closed" => exitCause = "signal"

\* C3: in a cycle whose first live snapshot reports the stream not enabled
\* and whose enable call succeeds: if the re-fetched snapshot reports
\* enabled, the cycle that reaches its sleep has handed exactly one live_data
\* record to the sink; if it still reports not enabled, no live_data record
\* is handed over and no second enable call is issued.
HandshakeRan ==
    /\ live.first.res = "ok"
    /\ live.first.flag # Some("enabled")
    /\ live.enable = "ok"
    /\ live.second.res = "ok"

C3_HandshakeOutcome ==
    HandshakeRan =>
        /\ live.handed <= 1
        /\ (live.second.flag = Some("enabled") /\ pc = "sleep") => live.handed = 1
        /\ live.second.flag # Some("enabled") =>
                live.handed = 0 /\ live.enables = 1 /\ pc \in {"sleep", "closed"}

C3_Witness ==
    /\ HandshakeRan
    /\ live.first.flag = Some("disabled")
    /\ live.second.flag = Some("enabled")
    /\ live.handed = 1
    /\ pc = "sleep"

\* C4: in every poll cycle at most one enable command is issued and the live
\* snapshot is fetched at most twice, and the enable command is issued only
\* after a first snapshot whose stream-state flag is not "enabled".
C4_OneEnablePerCycle ==
    /\ live.enables <= 1
    /\ live.fetches <= 2
    /\ live.enables = 1 =>
            live.first.res = "ok" /\ live.first.flag # Some("enabled")
    /\ live.fetches = 2 => live.enables = 1

C4_Witness ==
    /\ live.enables = 1
    /\ live.fetches = 2
    /\ live.second.res = "json.JSONDecodeError"
    /\ pc = "sleep"

----------------------------------------------------------------------------
(* Properties of the client's token handling (checked under SpecClient) *)

\* the last call went through _ensure_token on a cloud client with a cached
\* token whose obtained-at time and expires_in are set
CloudCallWithToken ==
    /\ ~local_mode
    /\ call.op \in AuthCalls
    /\ call.before.td # None
    /\ call.before.at # None
    /\ call.before.td[1].expires_in # None

\* now - obtained_at, and expires_in - 60, of the state the last call found
Elapsed == call.at - call.before.at[1]
Threshold == call.before.td[1].expires_in[1] - 60

\* C5: in cloud mode, for a cached token with now - obtained_at <
\* expires_in - 60, ensuring a valid token returns the cached access token
\* and sends no refresh request.
C5_FreshTokenReturned ==
    (CloudCallWithToken /\ Elapsed < Threshold) =>
        /\ call.authErr = "none"
        /\ call.token = Some(call.before.td[1].access_token)
        /\ call.tokenReqs = 0
        /\ token_data = call.before.td

C5_Witness ==
    /\ CloudCallWithToken
    /\ Elapsed < Threshold
    /\ Elapsed > 0
    /\ call.op = "ensure"
    /\ call.token = Some(call.before.td[1].access_token)

\* C6 as stated: in cloud mode, for every cached token with now -
\* obtained_at >= expires_in - 60, one call that ensures a valid token sends
\* exactly one refresh request, and the cached token is replaced only when
\* that request succeeds.
TokenStateChanged ==
    \/ token_data # call.before.td
    \/ token_obtained_at # call.before.at
    \/ store # call.beforeStore

C6_ExactlyOneRefresh ==
    (CloudCallWithToken /\ Elapsed >= Threshold) =>
        /\ call.tokenReqs = 1
        /\ TokenStateChanged => call.asked = "ok"

\* C6 amended: for a cached token at or past the buffer that holds a
\* refresh_token, exactly one refresh request is sent and the cached token
\* is replaced only when that request succeeds; for one that holds no
\* refresh_token, no request is sent, the call fails and the cached token is
\* unchanged.
C6_OneRefreshWhenRefreshable ==
    (CloudCallWithToken /\ Elapsed >= Threshold) =>
        IF call.before.td[1].refresh_token # None
        THEN /\ call.tokenReqs = 1
             /\ call.asked # "no"
             /\ TokenStateChanged => call.asked = "ok"
             /\ call.asked = "ok" => token_obtained_at = Some(call.at)
        ELSE /\ call.tokenReqs = 0
             /\ call.authErr # "none"
             /\ ~TokenStateChanged

C6_Witness ==
    /\ CloudCallWithToken
    /\ Elapsed = Threshold
    /\ call.before.td[1].refresh_token # None
    /\ call.asked = "ok"
    /\ call.tokenReqs = 1
    /\ token_data # call.before.td

\* C7: a failed token refresh fails the call with an error, never returns
\* the expired token, and leaves the cached token unchanged in memory
\* (token data and obtained-at time) and in the token file.
RefreshFailed ==
    /\ ~local_mode
    /\ call.op \in AuthCalls
    /\ call.before.td # None
    /\ \/ call.asked \notin {"no", "ok"}
       \/ call.authErr # "none"

C7_FailedRefreshKeepsToken ==
    RefreshFailed =>
        /\ call.authErr # "none"
        /\ call.err = call.authErr
        /\ call.token = None
        /\ call.bearer = None
        /\ call.apiReqs = 0
        /\ token_data = call.before.td
        /\ token_obtained_at = call.before.at
        /\ store = call.beforeStore

C7_Witness ==
    /\ RefreshFailed
    /\ call.asked = "http_status"
    /\ call.err = "httpx.HTTPStatusError"
    /\ token_data = call.before.td
    /\ store.kind = "object"
    /\ store.td = token_data

\* C8: in cloud mode with no cached token, ensuring a valid token fails with
\* the not-authenticated error, sends no request to the token endpoint or
\* the API, and leaves the token state absent.
C8_NoTokenNotAuthenticated ==
    (~local_mode /\ call.op \in AuthCalls /\ call.before.td = None) =>
        /\ call.err = "ValueError(no token data)"
        /\ call.token = None
        /\ call.tokenReqs = 0
        /\ call.apiReqs = 0
        /\ token_data = None
        /\ token_obtained_at = call.before.at
        /\ store = call.beforeStore

C8_Witness ==
    /\ ~local_mode
    /\ call.op = "get"
    /\ call.before.td = None
    /\ call.err = "ValueError(no token data)"
    /\ call.apiReqs = 0

\* C9: in local mode, ensuring a valid token returns the configured bearer
\* token verbatim on every call and never sends a refresh request, whatever
\* time has passed; with no bearer token configured it fails with the
\* missing-credential error on every call.
C9_LocalTokenVerbatim ==
    (local_mode /\ call.op \in AuthCalls) =>
        /\ call.tokenReqs = 0
        /\ token_data = None
        /\ IF local_token = None \/ local_token = Some("")
           THEN /\ call.err = "ValueError(local token required)"
                /\ call.token = None
                /\ call.apiReqs = 0
           ELSE /\ call.authErr = "none"
                /\ call.token = local_token

C9_Witness ==
    /\ local_mode
    /\ call.op = "ensure"
    /\ call.at > StartTime
    /\ call.token = local_token
    /\ local_token # None

\* C10: constructing a cloud client over a token file that exists but is
\* corrupt or unreadable (invalid JSON, JSON of the wrong shape, undecodable
\* bytes, read error) never raises: the client starts with no cached token.
C10_CorruptStoreIsAbsent ==
    (~local_mode /\ call.op = "init" /\ call.beforeStore.kind \in BrokenKinds) =>
        /\ call.err = "none"
        /\ token_data = None
        /\ token_obtained_at = None

\* the last call obtained a token from the token endpoint and saved it
TokenSaved ==
    /\ ~local_mode
    /\ call.op \in {"fetch_token", "ensure", "get"}
    /\ call.asked = "ok"

\* the last step constructed a new client over the file the previous client
\* had saved its token state to
ReloadedSavedToken ==
    /\ ~local_mode
    /\ call.op = "init"
    /\ call.before.td # None
    /\ call.beforeStore.kind = "object"
    /\ call.beforeStore.td = call.before.td
    /\ call.beforeStore.at = call.before.at

C12_ObtainedAtIffToken ==
    (~local_mode /\ Constructed) =>
        ((token_obtained_at # None) <=> (token_data # None))

----------------------------------------------------------------------------
(* Further properties of the ingest loop (checked under Spec) *)

\* the errors _ensure_token raises itself
AuthErrors ==
    {"ValueError(local token required)", "ValueError(no token data)",
     "ValueError(no refresh token)"}

C14_SinkErrorIsolated ==
    pc = "closed" => exitCause # "influxdb.ApiException"

\* C15: while the loop runs both the sink and the client's HTTP session are
\* open, and once the loop is left, by an error or by the termination
\* signal, both are closed.
C15_BothClosedOnExit ==
    /\ pc \in {"fetch", "write", "enable", "refetch", "sleep"} =>
            influxOpen /\ sessionOpen
    /\ pc = "closed" => ~influxOpen /\ ~sessionOpen

C15_Witness ==
    /\ pc = "closed"
    /\ exitCause = "httpx.HTTPStatusError"
    /\ cur = 3
    /\ ~influxOpen
    /\ ~sessionOpen

\* C16: the termination signal takes effect only between per-source steps:
\* the loop is left on the signal only from a point where no source is
\* fetched but not yet fully written (before a fetch, or in the sleep).
C16_SignalAfterStep ==
    [][(exitCause = "none" /\ exitCause' = "signal") =>
            pc \in {"fetch", "sleep"}]_vars

\* the sources before cur were attempted, those after it were not; a fetch
\* begins with every mapped record of the earlier sources handed to the
\* sink; the sleep is reached after the fifth source
SourcesInOrder ==
    /\ pc \in {"fetch", "write", "enable", "refetch", "sleep"} =>
            /\ cur \in Sources
            /\ \A t \in Sources :
                    /\ t < cur => fetched[t] # "none"
                    /\ t > cur => fetched[t] = "none"
                    /\ (t < cur /\ fetched[t] = "ok") => complete[t]
    /\ pc = "fetch" => fetched[cur] = "none" /\ pending = <<>>
    /\ pc = "write" =>
            /\ fetched[cur] = "ok"
            /\ answer.src = cur
            /\ pending # <<>>
            /\ handed \o pending = 
                    MapSource(cur, answer.body[1], now)
    /\ pc = "sleep" => cur = 5 /\ fetched[5] # "none" /\ pending = <<>>

\* the loop moves from a source to itself or to the next one, and a cycle's
\* first fetch is entered from the sleep alone, which is left to that fetch
\* (or by leaving the loop)
SourceStep ==
    /\ pc' \in {"fetch", "write", "enable", "refetch", "sleep"} =>
            \/ cur' = cur
            \/ cur' = cur + 1 /\ pc' = "fetch" /\ pc \in {"fetch", "write"}
            \/ cur' = 1 /\ pc' = "fetch" /\ pc = "sleep"
    /\ pc = "sleep" => pc' \in {"sleep", "closed"} \/ (pc' = "fetch" /\ cur' = 1)
    /\ (pc' = "sleep" /\ pc # "sleep") => cur = 5

\* C17: within a cycle the five sources are processed strictly in order,
\* every record of a source is handed to the sink before the next source's
\* fetch begins, and exactly one sleep lies between the fifth source and
\* the next cycle's first fetch.
C17_SourcesInOrderThenSleep ==
    []SourcesInOrder /\ [][SourceStep]_vars

C17_Witness ==
    /\ pc = "sleep"
    /\ \A t \in Sources : fetched[t] = "ok" /\ complete[t]
    /\ live.handed = 1

\* the interval-energy fetch of this cycle returned {} or null, and no later
\* fetch has answered yet
EmptyOrNullPdm ==
    /\ answer.src = 1
    /\ \/ answer.json = "null"
       \/ answer.json = "doc" /\ answer.body[1] = EmptyPdm

\* C18: an empty or null interval-energy document yields no record and no
\* exception: the loop goes on to the fetch of the second source.
C18_EmptyPdmNoRecords ==
    EmptyOrNullPdm =>
        /\ handed = <<>>
        /\ complete[1]
        /\ exitCause \in {"none", "signal"}
        /\ exitCause = "none" => pc = "fetch" /\ cur = 2

----------------------------------------------------------------------------
(* Properties of the client's requests (checked under SpecClient) *)

\* the calls that send a request to the gateway or the cloud API
RequestCalls == {"get", "enable"}
FailureKinds == {"network", "http_status", "bad_json"}

\* C19: every request of a GET or of the enable POST carries as bearer the
\* token the credential check returned to that call; its key parameter is
\* the configured api_key in cloud mode (none when none is configured) and
\* is never present in local mode.
C19_BearerAndKey ==
    call.apiReqs > 0 =>
        /\ call.op \in RequestCalls
        /\ call.authErr = "none"
        /\ call.token # None
        /\ call.bearer = call.token
        /\ local_mode => call.key = None /\ call.bearer = local_token
        /\ ~local_mode =>
                /\ call.key = api_key
                /\ call.bearer = Some(token_data[1].access_token)

C19_Witness ==
    /\ ~local_mode
    /\ call.op = "get"
    /\ call.apiReqs = 1
    /\ call.tokenReqs = 1
    /\ call.key = Some("key")
    /\ call.bearer = Some(token_data[1].access_token)
    /\ call.bearer # Some(call.before.td[1].access_token)

\* C20: one call sends at most one request to the endpoint it asks (and at
\* most one to the token endpoint), and a network failure, a non-2xx status
\* or a malformed JSON body of either is raised to the caller; only a 2xx
\* answer with a JSON body returns a value.
C20_NoRetry ==
    /\ call.apiReqs <= 1
    /\ call.tokenReqs <= 1
    /\ call.api \in FailureKinds =>
            /\ call.apiReqs = 1
            /\ call.err \in TransportErrors
            /\ call.err = ErrorOf(call.api)
    /\ call.asked \in FailureKinds =>
            /\ call.tokenReqs = 1
            /\ call.apiReqs = 0
            /\ call.err \in TransportErrors
            /\ call.err = ErrorOf(call.asked)
    /\ (call.op \in RequestCalls /\ call.err = "none") =>
            call.api = "ok" /\ call.apiReqs = 1

C20_Witness ==
    /\ call.op = "get"
    /\ call.api = "http_status"
    /\ call.err = "httpx.HTTPStatusError"
    /\ call.apiReqs = 1
    /\ call.tokenReqs = 1

----------------------------------------------------------------------------
(* Properties of the code exchange and the refresh (checked under SpecClient) *)

\* C21: a code exchange the token endpoint answers with a non-2xx status (or
\* that fails on the network or on the body) raises and leaves the cached
\* token, its obtained-at time and the token file as they were; a
\* successful one caches a token with obtained_at = now and writes that
\* same state to the token file.
C21_CodeExchange ==
    call.op = "fetch_token" =>
        /\ call.tokenReqs = 1
        /\ call.asked \in FailureKinds =>
                /\ call.err = ErrorOf(call.asked)
                /\ call.err # "none"
                /\ token_data = call.before.td
                /\ token_obtained_at = call.before.at
                /\ store = call.beforeStore
        /\ call.asked = "ok" =>
                /\ call.err = "none"
                /\ token_data # None
                /\ token_obtained_at = Some(call.at)
                /\ store.kind = "object"
                /\ store.td = token_data
                /\ store.at = token_obtained_at

C21_Witness ==
    /\ call.op = "fetch_token"
    /\ call.asked = "http_status"
    /\ call.err = "httpx.HTTPStatusError"
    /\ call.before.td # None
    /\ token_data = call.before.td
    /\ store = call.beforeStore
    /\ store.kind = "object"

----------------------------------------------------------------------------
(* Properties of the mappers (checked under Spec) *)

\* C22: no record handed to the sink has an empty field set: an entry whose
\* mapped values are all null or absent produces no write.
C22_NoEmptyRecordHanded ==
    \A i \in 1..Len(handed) : handed[i].fields # "none"

\* the interval-energy document of this cycle was fetched and all its mapped
\* records were handed to the sink
PdmWritten ==
    /\ answer.src = 1
    /\ answer.json = "doc"
    /\ complete[1]

\* the (category, sub-source) pairs of a document whose value is an object
ObjectPairs(doc) ==
    {p \in (1..Len(Cats)) \X (1..Len(Subs)) :
        /\ doc.cats[p[1]] # None
        /\ doc.cats[p[1]][1][p[2]] \in {"empty", "vals"}}

\* C23: the records written for an interval-energy document are one per
\* (category, sub-source) pair whose value is an object, named
\* "{category}_{sub-source}", none for meta, and all carry the one timestamp
\* read from meta.last_report_at (the clock when it is missing).
C23_PdmMapping ==
    PdmWritten =>
        LET doc == answer.body[1]
            ts == IF doc.meta = None \/ doc.meta[1] = None THEN now
                  ELSE doc.meta[1][1]
        IN  /\ Len(handed) = Cardinality(ObjectPairs(doc))
            /\ \A p \in ObjectPairs(doc) :
                    \E k \in 1..Len(handed) :
                        handed[k].m = Cats[p[1]] \o "_" \o Subs[p[2]]
            /\ \A k \in 1..Len(handed) :
                    /\ handed[k].ts = ts
                    /\ \E p \in ObjectPairs(doc) :
                            handed[k].m = Cats[p[1]] \o "_" \o Subs[p[2]]

\* the document {"meta": {"last_report_at": t}, "production": {"eim": {...}}}
\* gave exactly the record production_eim at t
C23_Witness ==
    /\ PdmWritten
    /\ answer.body[1].meta = Some(Some(StartTime - TickSec))
    /\ answer.body[1].cats = <<Some(<<"vals", "absent">>), None>>
    /\ handed = <<Record("production_eim", StartTime - TickSec, "some")>>
    /\ pc = "fetch"
    /\ cur = 2

\* the meter readings of this cycle were fetched and every mapped record
\* was handed to the sink
MetersWritten ==
    /\ answer.src = 3
    /\ answer.json = "doc"
    /\ complete[3]

\* C24: a fetched list of n meter entries yields n meter_power records in
\* list order, each tagged with the entry's eid as a string and its
\* measurement type, stamped with the entry's timestamp when it has one and
\* with read_at only when timestamp is absent.
C24_MeterMapping ==
    MetersWritten =>
        LET doc == answer.body[1]
        IN  /\ Len(handed) = Len(doc)
            /\ \A i \in 1..Len(doc) :
                    /\ handed[i].m = "meter_power"
                    /\ handed[i].fields = doc[i].fields
                    /\ handed[i].tags.type = doc[i].measurementType
                    /\ doc[i].eid = Some(1) => handed[i].tags.eid = "1"
                    /\ doc[i].timestamp # None =>
                            handed[i].ts = doc[i].timestamp[1]
                    /\ (doc[i].timestamp = None /\ doc[i].read_at # None) =>
                            handed[i].ts = doc[i].read_at[1]

----------------------------------------------------------------------------
(* Properties of the handshake across cycles (checked under Spec) *)

\* the first snapshot of this cycle was fetched and is not enabled, and the
\* cycle is past its enable call
PastEnable ==
    /\ live.first.res = "ok"
    /\ live.first.flag # Some("enabled")
    /\ \/ pc \in {"refetch", "write", "sleep"}
       \/ pc = "closed" /\ exitCause # "signal"

\* C25: a cycle that follows one which skipped live_data (the stream stayed
\* disabled, or the enable call or the re-fetch failed) decides as a first
\* cycle does: it fetches the snapshot again, issues one enable command if
\* that snapshot is not enabled, and writes live_data if the last snapshot
\* it fetched is enabled.
C25_NoHandshakeStateKept ==
    lastSkipped =>
        /\ (pc = "sleep" /\ ~FalsyStr(local_token)) => live.fetches >= 1
        /\ PastEnable => live.enables = 1
        /\ (pc = "sleep" /\ live.first.flag = Some("enabled")) =>
                live.handed = 1 /\ live.enables = 0
        /\ (pc = "sleep" /\ live.second.flag = Some("enabled")) =>
                live.handed = 1

C25_Witness ==
    /\ lastSkipped
    /\ pc = "sleep"
    /\ live.first.flag = Some("disabled")
    /\ live.enables = 1
    /\ live.second.flag = Some("enabled")
    /\ live.handed = 1

----------------------------------------------------------------------------
(* Properties of the cloud loop (checked under SpecCloud) *)

\* C26: once the list of systems is known, no failure fetching a system's
\* telemetry or summary, and no summary lacking its timestamp, ends the
\* loop: it is left on the signal (or by the sink) alone, and a cycle
\* reaches its sleep with every system of the list attempted.
C26_SystemFailureIsolated ==
    sys_list # None =>
        /\ exitCause \in {"none", "signal", "influxdb.ApiException"}
        /\ (pc = "sleep" /\ attempted # {}) => attempted = 1..sys_list[1]

\* C27: after a successful refresh the call returns the access token of the
\* refresh response (not the one that expired), the obtained-at time is the
\* time of the call, the token file holds the token state that is in memory,
\* and the next call made within the new token's validity window sends no
\* request to the token endpoint.
Refreshed ==
    /\ ~local_mode
    /\ call.op \in AuthCalls
    /\ call.asked = "ok"

RefreshedState ==
    Refreshed =>
        /\ call.authErr = "none"
        /\ call.tokenReqs = 1
        /\ token_data # None
        /\ call.token = Some(token_data[1].access_token)
        /\ token_obtained_at = Some(call.at)
        /\ store = SaveToken(token_data, token_obtained_at)
        /\ LoadToken(store).td = token_data
        /\ LoadToken(store).at = token_obtained_at

NextCallInWindow ==
    (/\ Refreshed
     /\ call' # call
     /\ call'.op \in AuthCalls
     /\ call'.at - call.at < GetOr(token_data[1].expires_in, 0) - Buffer)
        => /\ call'.tokenReqs = 0
           /\ call'.token = call.token
           /\ token_data' = token_data
           /\ token_obtained_at' = token_obtained_at

C27_RefreshInstallsNewToken == []RefreshedState /\ [][NextCallInWindow]_vars

\* a refresh answered with another access token than the expired one, and
\* then a later call, a clock step on, served from the cache
C27_NextCallServed ==
    /\ ~local_mode
    /\ call.op = "ensure"
    /\ call.tokenReqs = 0
    /\ call.token = Some("A2")
    /\ token_obtained_at = Some(call.at - TickSec)
    /\ call.before.td = token_data
    /\ store = SaveToken(token_data, token_obtained_at)
    /\ store # FileOf("absent")

C27_Witness ==
    /\ Refreshed
    /\ call.before.td # None
    /\ call.before.td[1].access_token = "A1"
    /\ call.token = Some("A2")
    /\ token_obtained_at = Some(call.at)
    /\ call.before.at # token_obtained_at

\* C28: a call that finds the cached token expired and without a
\* refresh_token fails with the no-refresh-token error, sends no request to
\* the token endpoint (nor to the API) and leaves the token state as it was;
\* a client in that state stays in it, whatever is called and however the
\* clock moves, until fetch_token is called.
Unrefreshable(td, at, t) ==
    /\ td # None
    /\ td[1].refresh_token = None
    /\ IsTokenExpired(td, at, t)

CalledUnrefreshable ==
    /\ ~local_mode
    /\ call.op \in AuthCalls
    /\ Unrefreshable(call.before.td, call.before.at, call.at)

UnrefreshableCallFails ==
    CalledUnrefreshable =>
        /\ call.authErr = "ValueError(no refresh token)"
        /\ call.err = call.authErr
        /\ call.token = None
        /\ call.tokenReqs = 0
        /\ call.apiReqs = 0
        /\ token_data = call.before.td
        /\ token_obtained_at = call.before.at
        /\ store = call.beforeStore

Stuck ==
    /\ ~local_mode
    /\ Constructed
    /\ Unrefreshable(token_data, token_obtained_at, now)

StuckUntilCodeExchange ==
    (Stuck /\ ~(call'.op = "fetch_token" /\ call'.asked = "ok")) => Stuck'

C28_NoRefreshTokenStaysFailing ==
    []UnrefreshableCallFails /\ [][StuckUntilCodeExchange]_vars

\* a refresh response omitted the refresh_token, the token it brought has
\* since reached the buffer, and a call has failed on it
C28_Witness ==
    /\ CalledUnrefreshable
    /\ call.op = "get"
    /\ call.before.at # None
    /\ call.at > call.before.at[1]
    /\ call.before.td[1].expires_in # None
    /\ call.err = "ValueError(no refresh token)"
    /\ Stuck

\* C29: in a cycle whose first live snapshot fetch failed, or whose enable
\* call or re-fetch failed after a not-enabled first snapshot, no live_data
\* record is handed to the sink, no live-stream request follows the failed
\* one, and the cycle is at its sleep (or was ended there by the signal); a
\* live_data record is handed over only when the last snapshot fetched with
\* success in the cycle reports enabled.
Failed(res) == res \notin {"none", "ok", "null"}

HandshakeFailed ==
    \/ Failed(live.first.res)
    \/ Failed(live.enable)
    \/ Failed(live.second.res)

\* the requests a handshake that failed at its first fetch, its enable call
\* or its re-fetch has sent at most (a step that fails on the token sends
\* none)
RequestsUpToFailure ==
    IF Failed(live.first.res) THEN live.fetches <= 1 /\ live.enables = 0
    ELSE IF Failed(live.enable) THEN live.fetches = 1 /\ live.enables <= 1
    ELSE live.fetches <= 2 /\ live.enables = 1

LastSnapshot == IF live.second.res = "ok" THEN live.second ELSE live.first

LiveOnlyWhenEnabled ==
    live.handed > 0 =>
        /\ live.handed = 1
        /\ LastSnapshot.res = "ok"
        /\ LastSnapshot.flag = Some("enabled")

FailedHandshakeQuiet ==
    HandshakeFailed =>
        /\ live.handed = 0
        /\ RequestsUpToFailure
        /\ Failed(live.first.res) =>
                live.enable = "none" /\ live.second.res = "none"
        /\ Failed(live.enable) => live.second.res = "none"

C29_FailedHandshakeSleeps ==
    /\ LiveOnlyWhenEnabled
    /\ FailedHandshakeQuiet
    /\ HandshakeFailed => (pc = "sleep" \/ exitCause = "signal")

====
